---- MODULE Spec2Model ----
(***************************************************************************)
(* Model of the jsDAV ACL plugin (lib/DAVACL/plugin.js).                   *)
(*                                                                         *)
(* The plugin is written in continuation-passing style.  Every operator    *)
(* below stands for one function of the plugin and yields what that        *)
(* function hands to its continuation: a record whose kind is              *)
(*    "err"    the continuation received an error,                         *)
(*    "ok" ..  the continuation received a value,                          *)
(*    "throw"  an exception escaped (the continuation was not called).     *)
(* The collaborators (the handler's resource tree, the nodes, the auth     *)
(* plugin) call their continuation exactly once and on a later tick.  The  *)
(* capability markers jsDAVACL_iACL and jsDAVACL_iPrincipal are read as    *)
(* the interfaces they name.  The ACL method handler (httpACL and what     *)
(* follows it in the file) is written in direct style; a call it makes to  *)
(* a continuation-passing function evaluates to the value that function    *)
(* hands to its continuation.                                              *)
(***************************************************************************)
EXTENDS Integers, Sequences, FiniteSets, TLC

VARIABLES
    aclCapable,                    \* nodes that implement jsDAVACL_iACL
    storedACL,                     \* node -> the ACL the node itself stores
    groupMembership,               \* principal node -> its direct groups
    allowAccessToNodesWithoutACL,  \* plugin option
    adminPrincipals,               \* plugin option
    principalMembershipCache,      \* principal -> cached membership
    last,                          \* what the last operation did
    groupMemberSet,                \* principal node -> its direct members
    resolutions,                   \* calls of getPrincipalMembership in flight
    aclRequests                    \* ACL requests in flight

vars == <<aclCapable, storedACL, groupMembership, allowAccessToNodesWithoutACL,
          adminPrincipals, principalMembershipCache, last, groupMemberSet,
          resolutions, aclRequests>>

config == <<aclCapable, groupMembership, allowAccessToNodesWithoutACL, adminPrincipals>>

\* what the handlers of one request at a time leave alone
concurrent == <<groupMemberSet, resolutions, aclRequests>>

-----------------------------------------------------------------------------
(* Bounds of the model *)

\* longest ACE list an ACL request carries
MaxReqLen == 2

\* longest privilege list handed to checkPrivileges
MaxPrivs == 2

\* longest ACE list a node keeps when the evaluator's functions are called
MaxAclLen == 2

\* longest list a node is let to keep before getACL is no longer called on it
MaxKeptLen == 4

-----------------------------------------------------------------------------
(* Plugin constants *)

R_PARENT == 1
R_RECURSIVE == 2
R_RECURSIVEPARENTS == 3

defaultUsernamePath == "principals"

\* what a continuation called without that argument receives
Undefined == [kind |-> "undefined"]

\* F applied to the value of v: what the code does with a result once it
\* has it (the continuation F of the call that yields v)
Then(v, F(_)) == CHOOSE y \in {F(x) : x \in {v}} : TRUE

NoErr == [kind |-> "none", uri |-> "", privileges |-> <<>>]

Err(k) == [kind |-> k, uri |-> "", privileges |-> <<>>]

\* new Exc.NeedPrivileges(uri, privileges)
NeedPrivileges(uri, privileges) ==
    [kind |-> "NeedPrivileges", uri |-> uri, privileges |-> privileges]

-----------------------------------------------------------------------------
(* The resource tree the handler serves *)

FileNodes == {"files", "files/sub", "files/sub/doc"}

PrincipalNodes == {"principals/alice", "principals/bob", "principals/staff"}

Nodes == FileNodes \cup {"principals"} \cup PrincipalNodes

\* paths that name no node
MissingPaths == {"files/sub/new", "principals/ghost"}

Paths == Nodes \cup MissingPaths

\* Util.splitPath(uri)[0]: the path of the parent collection
splitPathParent(uri) ==
    CASE uri = "files/sub/doc"    -> "files/sub"
      [] uri = "files/sub/new"    -> "files/sub"
      [] uri = "files/sub"        -> "files"
      [] uri = "principals/alice" -> "principals"
      [] uri = "principals/bob"   -> "principals"
      [] uri = "principals/staff" -> "principals"
      [] uri = "principals/ghost" -> "principals"
      [] OTHER                    -> ""

\* handler.getNodeForPath(path, cb)
getNodeForPath(path) ==
    IF path \in Nodes
    THEN [kind |-> "ok", node |-> path]
    ELSE [kind |-> "err", err |-> Err("NotFound")]

\* node.hasFeature(jsDAVACL_iPrincipal)
isPrincipal(node) == node \in PrincipalNodes

\* node.getOwner() of an ACL capable node; "" when it declares none
getOwner(node) ==
    IF node = "files/sub/doc" THEN "principals/alice" ELSE ""

-----------------------------------------------------------------------------
(* Privileges *)

Leaf(p) == [privilege |-> p, abstract |-> TRUE, aggregates |-> <<>>]

getDefaultSupportedPrivilegeSet ==
    [privilege |-> "{DAV:}all", abstract |-> TRUE, aggregates |-> <<
        [privilege |-> "{DAV:}read", abstract |-> FALSE, aggregates |-> <<
            Leaf("{DAV:}read-acl"),
            Leaf("{DAV:}read-current-user-privilege-set") >>],
        [privilege |-> "{DAV:}write", abstract |-> FALSE, aggregates |-> <<
            Leaf("{DAV:}write-acl"),
            Leaf("{DAV:}write-properties"),
            Leaf("{DAV:}write-content"),
            Leaf("{DAV:}bind"),
            Leaf("{DAV:}unbind"),
            Leaf("{DAV:}unlock") >>] >>]

\* the privilege set the group principals/staff supplies of its own: an
\* abstract privilege with children of its own declared after a concrete one
ownSupportedPrivilegeSet ==
    [privilege |-> "{DAV:}all", abstract |-> TRUE, aggregates |-> <<
        [privilege |-> "{DAV:}read", abstract |-> FALSE, aggregates |-> <<
            Leaf("{DAV:}read-acl") >>],
        [privilege |-> "{DAV:}write", abstract |-> TRUE, aggregates |-> <<
            [privilege |-> "{DAV:}write-content", abstract |-> FALSE,
             aggregates |-> <<>>],
            Leaf("{DAV:}write-properties") >>] >>]

\* getSupportedPrivilegeSet(node, cb): the set the node supplies, the
\* default set for a node that supplies none
getSupportedPrivilegeSet(node) ==
    IF node = "principals/staff" THEN ownSupportedPrivilegeSet
    ELSE getDefaultSupportedPrivilegeSet

\* the traversal inside getFlatPrivilegeSet.  It assigns the entry it builds
\* to myPriv, a name it does not declare, so one myPriv is shared by all
\* levels of the recursion; st carries that variable and the table the
\* traversal fills: st = [flat |-> table, myPriv |-> last entry built].
RECURSIVE getFPSTraverse(_, _, _)
RECURSIVE getFPSChildren(_, _, _)
getFPSTraverse(priv, isConcrete, st) ==
    Then([privilege  |-> priv.privilege,
          abstract   |-> priv.abstract,
          aggregates |-> [i \in 1..Len(priv.aggregates) |->
                             priv.aggregates[i].privilege],
          concrete   |-> IF priv.abstract THEN isConcrete ELSE priv.privilege],
         LAMBDA myPriv :
             getFPSChildren(priv.aggregates, 1,
                 [flat |-> (priv.privilege :> myPriv) @@ st.flat,
                  myPriv |-> myPriv]))

\* the second forEach of getFPSTraverse: it reads myPriv.concrete anew for
\* every child, after the traversal of the earlier children has reassigned it
getFPSChildren(aggregates, i, st) ==
    IF i > Len(aggregates) THEN st
    ELSE Then(getFPSTraverse(aggregates[i], st.myPriv.concrete, st),
              LAMBDA st2 : getFPSChildren(aggregates, i + 1, st2))

\* getFlatPrivilegeSet hands its continuation the value of the call
\* getFPSTraverse(privs, null, []); the traversal fills the list it was
\* given and returns nothing, so the continuation receives no table
getFlatPrivilegeSet(node) ==
    Then(getFPSTraverse(getSupportedPrivilegeSet(node), "null",
                        [flat |-> <<>>, myPriv |-> Undefined]),
         LAMBDA filled : Undefined)

-----------------------------------------------------------------------------
(* Principals *)

\* the auth plugin reports the user name; "" when nobody is logged in
Users == {"", "alice", "bob"}

getCurrentUserPrincipal_NamesNobody(userName) ==
    [kind |-> "ok", value |-> defaultUsernamePath \o "/" \o userName]

getCurrentUserPrincipal(userName) ==
    IF userName = "" THEN Undefined
    ELSE [kind |-> "ok", value |-> defaultUsernamePath \o "/" \o userName]

\* checkNext/checkedAll of getPrincipalMembership, up to the point where
\* checkedAll decides what to hand on
RECURSIVE checkNext(_, _)
checkNext(check, principals) ==
    IF check = <<>> \/ Head(check) = ""
    THEN [kind |-> "ok", value |-> principals]
    ELSE Then(getNodeForPath(Head(check)), LAMBDA n :
             IF n.kind = "err" THEN [kind |-> "err", err |-> n.err]
             ELSE IF isPrincipal(n.node) /\ groupMembership[n.node] # <<>>
             THEN \* the forEach body reads pricipals, a name nothing
                  \* defines: its first run raises a ReferenceError
                  [kind |-> "throw"]
             ELSE checkNext(Tail(check), principals))

getPrincipalMembership(mainPrincipal, cache) ==
    IF mainPrincipal \in DOMAIN cache
    THEN [kind |-> "ok", value |-> cache[mainPrincipal], cache |-> cache]
    ELSE Then(checkNext(<<mainPrincipal>>, <<>>), LAMBDA r :
             CASE r.kind = "err"   -> [kind |-> "err", err |-> r.err, cache |-> cache]
               [] r.kind = "throw" -> [kind |-> "throw", cache |-> cache]
               [] OTHER -> [kind |-> "ok", value |-> r.value,
                            cache |-> (mainPrincipal :> r.value) @@ cache])

getCurrentUserPrincipals(userName, cache) ==
    Then(getCurrentUserPrincipal(userName), LAMBDA currentUser :
        IF currentUser.kind = "undefined"
        THEN [kind |-> "ok", value |-> <<>>, cache |-> cache]
        ELSE Then(getPrincipalMembership(currentUser.value, cache), LAMBDA m :
                 IF m.kind = "ok"
                 THEN [kind |-> "ok", value |-> <<currentUser.value>> \o m.value,
                       cache |-> m.cache]
                 ELSE m))

-----------------------------------------------------------------------------
(* Access evaluation *)

Range(s) == {s[i] : i \in DOMAIN s}

\* Util.makeUnique: the list without its repeated elements
RECURSIVE makeUnique(_)
makeUnique(s) ==
    IF s = <<>> THEN <<>>
    ELSE Then(makeUnique(SubSeq(s, 1, Len(s) - 1)), LAMBDA init :
             IF s[Len(s)] \in Range(init) THEN init ELSE Append(init, s[Len(s)]))

AdminACE(adminPrincipal) ==
    [principal |-> adminPrincipal, privilege |-> "{DAV:}all", protected |-> TRUE]

\* getACL of a node object: nothing for a node without ACL support, else
\* the node's list with one entry per administrator principal pushed on it
getACL(node) ==
    IF node \notin aclCapable THEN Undefined
    ELSE [kind |-> "ok",
          value |-> storedACL[node] \o
                    [i \in 1..Len(adminPrincipals) |-> AdminACE(adminPrincipals[i])]]

aceMatches_OwnerUnchecked(ace, node, principals) ==
    CASE ace.principal = "{DAV:}owner" -> TRUE
      [] ace.principal = "{DAV:}all" -> TRUE
      [] ace.principal = "{DAV:}authenticated" -> TRUE
      [] ace.principal = "{DAV:}unauthenticated" -> FALSE
      [] OTHER -> ace.principal \in Range(principals)

aceMatches_CountsUnauthenticated(ace, node, principals) ==
    CASE ace.principal = "{DAV:}owner" ->
             getOwner(node) # "" /\ getOwner(node) \in Range(principals)
      [] ace.principal = "{DAV:}all" -> TRUE
      [] ace.principal = "{DAV:}authenticated" -> TRUE
      [] ace.principal = "{DAV:}unauthenticated" -> TRUE
      [] OTHER -> ace.principal \in Range(principals)

\* the switch of getCurrentUserPrivilegeSet: does the ACE apply to the caller
aceMatches(ace, node, principals) ==
    CASE ace.principal = "{DAV:}owner" ->
             getOwner(node) # "" /\ getOwner(node) \in Range(principals)
      [] ace.principal = "{DAV:}all" -> TRUE
      [] ace.principal = "{DAV:}authenticated" -> TRUE
      [] ace.principal = "{DAV:}unauthenticated" -> FALSE
      [] OTHER -> ace.principal \in Range(principals)

\* the entries collected.push(flat[subPriv]) adds for the aggregates of one
\* privilege
flatEntries(aggs, flat) ==
    [i \in 1..Len(aggs) |->
        IF aggs[i] \in DOMAIN flat.table
        THEN [kind |-> "entry", privilege |-> aggs[i]]
        ELSE Undefined]

\* the while loop of getCurrentUserPrivilegeSet: collected is a stack of
\* entries (ACEs first, flat entries later), collected2 the privileges seen.
\* An index into a flat that is no table, or into an entry that is none,
\* raises a TypeError.
RECURSIVE deductAggregates(_, _, _)
deductAggregates(collected, collected2, flat) ==
    IF collected = <<>> THEN [kind |-> "ok", value |-> makeUnique(collected2)]
    ELSE Then(collected[Len(collected)], LAMBDA current :
             IF flat.kind = "undefined" \/ current.kind = "undefined"
             THEN [kind |-> "throw"]
             ELSE IF current.privilege \notin DOMAIN flat.table
             THEN [kind |-> "throw"]
             ELSE Then(flat.table[current.privilege].aggregates, LAMBDA aggs :
                      deductAggregates(
                          SubSeq(collected, 1, Len(collected) - 1)
                              \o flatEntries(aggs, flat),
                          collected2 \o <<current.privilege>> \o aggs,
                          flat)))

matchingACEs_CollectsAll(acl, node, principals) == acl

matchingACEs_StopsAtFirstMiss(acl, node, principals) ==
    SubSeq(acl, 1,
           CHOOSE k \in 0..Len(acl) :
               /\ \A i \in 1..k : aceMatches(acl[i], node, principals)
               /\ k < Len(acl) => ~aceMatches(acl[k + 1], node, principals))

\* the ACEs the forEach over acl pushes on collected, in the order of acl
matchingACEs(acl, node, principals) ==
    SelectSeq(acl, LAMBDA ace : aceMatches(ace, node, principals))

\* the ACEs of acl that apply to the caller, as the entries collected holds
collectMatching(acl, node, principals) ==
    Then(matchingACEs(acl, node, principals),
         LAMBDA matching :
             [i \in 1..Len(matching) |->
                 [kind |-> "entry", privilege |-> matching[i].privilege]])

\* the continuation getCurrentUserPrivilegeSet hands to getACL: what the
\* call makes of the list acl it is given for node
gotACL(acl, node, userName, cache) ==
    IF acl.kind = "undefined" THEN [kind |-> "undefined", cache |-> cache]
    ELSE Then(getCurrentUserPrincipals(userName, cache), LAMBDA p :
        IF p.kind # "ok" THEN p
        ELSE Then(deductAggregates(
                      collectMatching(acl.value, node, p.value), <<>>,
                      getFlatPrivilegeSet(node)),
                  LAMBDA r :
                      IF r.kind = "ok"
                      THEN [kind |-> "ok", value |-> r.value, cache |-> p.cache]
                      ELSE [kind |-> "throw", cache |-> p.cache]))

\* getCurrentUserPrivilegeSet(uri, cb)
getCurrentUserPrivilegeSet(uri, userName, cache) ==
    Then(getNodeForPath(uri), LAMBDA n :
        IF n.kind = "err" THEN [kind |-> "err", err |-> n.err, cache |-> cache]
        ELSE gotACL(getACL(n.node), n.node, userName, cache))

-----------------------------------------------------------------------------
(* Authorization gate *)

\* what a call left behind: cb counts the calls of its continuation, err and
\* value are the continuation's arguments, thrown tells an escaped exception
Outcome(cb, err, value, thrown, cache) ==
    [cb |-> cb, err |-> err, value |-> value, thrown |-> thrown, cache |-> cache]

\* checkPrivileges(uri, privileges, recursion, callback); recursion 0 stands
\* for a null argument, and the mode is not read after its default is set.
\* The continuation of getCurrentUserPrivilegeSet names its second argument
\* acl.
checkPrivileges(uri, privileges, recursion, userName, cache) ==
    Then(getCurrentUserPrivilegeSet(uri, userName, cache), LAMBDA r :
        CASE r.kind = "err" -> Outcome(1, r.err, "none", FALSE, r.cache)
          [] r.kind = "throw" -> Outcome(0, NoErr, "none", TRUE, r.cache)
          [] r.kind = "ok" ->
                 \* if (acl): a list, empty or not, is truthy
                 IF allowAccessToNodesWithoutACL
                 THEN Outcome(1, NoErr, "true", FALSE, r.cache)
                 ELSE Outcome(1, NeedPrivileges(uri, privileges), "false", FALSE,
                              r.cache)
          [] OTHER ->
                 \* acl is undefined: the filter callback reads acl.indexOf and
                 \* raises a TypeError on the first privilege; with no privilege
                 \* to test, failed is empty and the function returns true
                 \* without calling back
                 Outcome(0, NoErr, "none", privileges # <<>>, r.cache))

Methods == {"GET", "HEAD", "OPTIONS", "PUT", "LOCK", "UNLOCK", "PROPPATCH",
            "ACL", "COPY", "MOVE", "MKCOL"}

\* the switch of beforeMethod: the privilege and the recursion argument of
\* the check a method asks for; no privilege for a method it lets pass
methodPrivilege(method) ==
    CASE method \in {"GET", "HEAD", "OPTIONS"} -> <<"{DAV:}read", 0>>
      [] method \in {"PUT", "LOCK", "UNLOCK"}  -> <<"{DAV:}write-content", 0>>
      [] method = "PROPPATCH"                  -> <<"{DAV:}write-properties", 0>>
      [] method = "ACL"                        -> <<"{DAV:}write-acl", 0>>
      [] method \in {"COPY", "MOVE"}           -> <<"{DAV:}read", R_RECURSIVE>>
      [] OTHER                                 -> <<"", 0>>

\* beforeMethod that yields the error of the lookup instead of passing on
beforeMethod_YieldsLookupError(method, uri, userName, cache) ==
    Then(methodPrivilege(method), LAMBDA need :
        IF getNodeForPath(uri).kind = "err"
        THEN Outcome(1, getNodeForPath(uri).err, "none", FALSE, cache)
        ELSE IF need[1] = ""
        THEN Outcome(1, NoErr, "none", FALSE, cache)
        ELSE checkPrivileges(uri, <<need[1]>>, need[2], userName, cache))

\* beforeMethod(e, method, uri); the continuation handed on is e.next
beforeMethod(method, uri, userName, cache) ==
    Then(methodPrivilege(method), LAMBDA need :
        IF getNodeForPath(uri).kind = "err" \/ need[1] = ""
        THEN Outcome(1, NoErr, "none", FALSE, cache)
        ELSE checkPrivileges(uri, <<need[1]>>, need[2], userName, cache))

\* beforeBind(e, uri)
beforeBind(uri, userName, cache) ==
    checkPrivileges(splitPathParent(uri), <<"{DAV:}bind">>, 0, userName, cache)

\* beforeUnbind(e, uri)
beforeUnbind(uri, userName, cache) ==
    checkPrivileges(splitPathParent(uri), <<"{DAV:}unbind">>, R_RECURSIVEPARENTS,
                    userName, cache)

hideNodesFromListings == FALSE

\* what a call of beforeGetProperties left behind
PropsOutcome(next, stop, thrown, ok, forbidden, cache) ==
    [next |-> next, stop |-> stop, thrown |-> thrown, ok |-> ok,
     forbidden |-> forbidden, cache |-> cache]

\* one gated property of beforeGetProperties: the name prop is looked for in
\* the request, the privilege priv is checked on uri, and the property is
\* marked forbidden when the check does not say yes, answered when the value
\* read for it (kind valueKind) is not null, and left alone otherwise.
\* o is the outcome so far.
gatedProperty(prop, priv, valueKind, uri, userName, requested, o) ==
    IF o.thrown \/ prop \notin requested THEN o
    ELSE Then(checkPrivileges(uri, <<priv>>, R_PARENT, userName, o.cache),
              LAMBDA c :
                  IF c.thrown THEN [o EXCEPT !.thrown = TRUE, !.cache = c.cache]
                  ELSE IF c.value # "true"
                  THEN [o EXCEPT !.forbidden = @ \cup {prop}, !.cache = c.cache]
                  ELSE IF valueKind = "throw"
                  THEN [o EXCEPT !.thrown = TRUE, !.cache = c.cache]
                  ELSE IF valueKind = "ok"
                  THEN [o EXCEPT !.ok = @ \cup {prop}, !.cache = c.cache]
                  ELSE [o EXCEPT !.cache = c.cache])

\* beforeGetProperties(e, uri, node, requestedProperties, returnedProperties)
\* for a node that is no principal.  The loop that marks everything
\* forbidden deletes requestedProperties[key] before it reads it, so the
\* one name it marks is "undefined".  The continuation of the first check
\* ends without a call of e.next when the caller may read the node.
beforeGetProperties(uri, userName, requested, cache) ==
    Then(checkPrivileges(uri, <<"{DAV:}read">>, R_PARENT, userName, cache),
         LAMBDA c :
             IF c.cb = 0 THEN PropsOutcome(0, 0, c.thrown, {}, {}, c.cache)
             ELSE IF c.value # "true"
             THEN IF hideNodesFromListings
                  THEN PropsOutcome(0, 1, FALSE, {}, {}, c.cache)
                  ELSE PropsOutcome(1, 0, FALSE, {},
                                    IF requested = {} THEN {} ELSE {"undefined"},
                                    c.cache)
             ELSE Then(gatedProperty("{DAV:}current-user-privilege-set",
                           "{DAV:}read-current-user-privilege-set",
                           getCurrentUserPrivilegeSet(uri, userName, c.cache).kind,
                           uri, userName, requested,
                           PropsOutcome(0, 0, FALSE, {}, {}, c.cache)),
                       LAMBDA o1 :
                  Then(gatedProperty("{DAV:}acl", "{DAV:}read-acl",
                           getACL(uri).kind, uri, userName, requested, o1),
                       LAMBDA o2 :
                           IF o2.thrown \/ "{DAV:}acl-restrictions" \notin requested
                           THEN o2
                           ELSE [o2 EXCEPT !.ok = @ \cup {"{DAV:}acl-restrictions"}])))

-----------------------------------------------------------------------------
(* ACL method *)

ACE(principal, privilege, protected) ==
    [principal |-> principal, privilege |-> privilege, protected |-> protected]

\* server.calculateUri: the path of a request URI, without the slashes
\* around it
calculateUri(href) ==
    CASE href = "/principals/alice/" -> "principals/alice"
      [] href = "/principals/alice"  -> "principals/alice"
      [] OTHER -> href

\* the "Normalizing urls" loop of httpACL
normalizeAcl(body) ==
    [k \in 1..Len(body) |-> [body[k] EXCEPT !.principal = calculateUri(@)]]

\* protectedPreserved with the test of newAce["protected"] left out
protectedPreserved_IgnoresFlag(oldAcl, newAcl) ==
    \A i \in 1..Len(oldAcl) :
        oldAcl[i].protected =>
            \E j \in 1..Len(newAcl) :
                /\ newAcl[j].privilege = oldAcl[i].privilege
                /\ newAcl[j].principal = oldAcl[i].principal

\* protectedPreserved with the test that skips entries turned around: it
\* skips the protected entries and looks for the others
protectedPreserved_SkipsProtected(oldAcl, newAcl) ==
    \A i \in 1..Len(oldAcl) :
        ~oldAcl[i].protected =>
            \E j \in 1..Len(newAcl) :
                /\ newAcl[j].privilege = oldAcl[i].privilege
                /\ newAcl[j].principal = oldAcl[i].principal
                /\ newAcl[j].protected

\* the loop over oldAcl of httpACL: TRUE when it raises no AceConflict
protectedPreserved(oldAcl, newAcl) ==
    \A i \in 1..Len(oldAcl) :
        oldAcl[i].protected =>
            \E j \in 1..Len(newAcl) :
                /\ newAcl[j].privilege = oldAcl[i].privilege
                /\ newAcl[j].principal = oldAcl[i].principal
                /\ newAcl[j].protected

\* the tests on the principal of one entry of newAcl
checkNewPrincipal(principal) ==
    IF principal.kind = "err" THEN "NotRecognizedPrincipal"
    ELSE IF ~isPrincipal(principal.node) THEN "NotRecognizedPrincipal"
    ELSE "none"

\* the body of the loop over newAcl of httpACL: the exception it raises for
\* one entry, "none" when it raises none.  isset() of an index into a value
\* that is no table is false.
checkNewAce(newAce, supportedPrivileges) ==
    IF supportedPrivileges.kind = "undefined" THEN "NotSupportedPrivilege"
    ELSE IF newAce.privilege \notin DOMAIN supportedPrivileges.table
    THEN "NotSupportedPrivilege"
    ELSE IF supportedPrivileges.table[newAce.privilege].abstract THEN "NoAbstract"
    ELSE checkNewPrincipal(getNodeForPath(newAce.principal))

\* the loop over newAcl: the exception of the first entry that raises one
RECURSIVE checkNewAcl(_, _, _)
checkNewAcl(newAcl, k, supportedPrivileges) ==
    IF k > Len(newAcl) THEN "none"
    ELSE Then(checkNewAce(newAcl[k], supportedPrivileges), LAMBDA e :
             IF e # "none" THEN e
             ELSE checkNewAcl(newAcl, k + 1, supportedPrivileges))

\* what httpACL leaves behind: the exception it raised (NoErr when none), the
\* stored ACLs after it, and the steps it went through
AclOutcome(err, stored, calls) == [err |-> err, stored |-> stored, calls |-> calls]

Loaded == {"getNodeForPath", "getACL", "getFlatPrivilegeSet"}

\* httpACLApply with node.setACL(newAcl) moved in front of the checks
httpACLApply_CommitsFirst(node, oldAcl, supportedPrivileges, newAcl) ==
    IF ~protectedPreserved(oldAcl, newAcl)
    THEN AclOutcome(Err("AceConflict"), [storedACL EXCEPT ![node] = newAcl],
                    Loaded \cup {"setACL"})
    ELSE Then(checkNewAcl(newAcl, 1, supportedPrivileges), LAMBDA e :
             AclOutcome(IF e # "none" THEN Err(e) ELSE NoErr,
                        [storedACL EXCEPT ![node] = newAcl],
                        Loaded \cup {"setACL"} \cup
                            (IF newAcl = <<>> THEN {} ELSE {"checkNewAce"})))

\* httpACLApply that stores the requested entries one by one as it checks
\* them: after an entry that raises, the node holds the entries before it
httpACLApply_StoresEntryWise(node, oldAcl, supportedPrivileges, newAcl) ==
    IF ~protectedPreserved(oldAcl, newAcl)
    THEN AclOutcome(Err("AceConflict"), storedACL, Loaded)
    ELSE Then(checkNewAcl(newAcl, 1, supportedPrivileges), LAMBDA e :
             IF e # "none"
             THEN AclOutcome(Err(e),
                             [storedACL EXCEPT ![node] =
                                 SubSeq(newAcl, 1,
                                        (CHOOSE k \in 1..Len(newAcl) :
                                            /\ checkNewAce(newAcl[k], supportedPrivileges) # "none"
                                            /\ \A h \in 1..(k - 1) :
                                                   checkNewAce(newAcl[h], supportedPrivileges) = "none")
                                        - 1)],
                             Loaded \cup {"checkNewAce", "setACL"})
             ELSE AclOutcome(NoErr, [storedACL EXCEPT ![node] = newAcl],
                             Loaded \cup {"setACL"} \cup
                                 (IF newAcl = <<>> THEN {} ELSE {"checkNewAce"})))

\* httpACL from the loop over oldAcl on, for the node the URI names
httpACLApply(node, oldAcl, supportedPrivileges, newAcl) ==
    IF ~protectedPreserved(oldAcl, newAcl)
    THEN AclOutcome(Err("AceConflict"), storedACL, Loaded)
    ELSE Then(checkNewAcl(newAcl, 1, supportedPrivileges), LAMBDA e :
             IF e # "none"
             THEN AclOutcome(Err(e), storedACL, Loaded \cup {"checkNewAce"})
             ELSE AclOutcome(NoErr, [storedACL EXCEPT ![node] = newAcl],
                             Loaded \cup {"setACL"} \cup
                                 (IF newAcl = <<>> THEN {} ELSE {"checkNewAce"})))

\* httpACL without the test of the node for ACL support; the loop over the
\* prior ACL of such a node, which has none, runs no round
httpACL_NoAclTest(uri, body) ==
    Then(getNodeForPath(uri), LAMBDA n :
        IF n.kind = "err" THEN AclOutcome(n.err, storedACL, {"getNodeForPath"})
        ELSE httpACLApply(n.node,
                          IF n.node \in aclCapable THEN getACL(n.node).value ELSE <<>>,
                          getFlatPrivilegeSet(n.node), normalizeAcl(body)))

\* httpACL(uri) with the ACE list of the request body
httpACL(uri, body) ==
    Then(getNodeForPath(uri), LAMBDA n :
        IF n.kind = "err" THEN AclOutcome(n.err, storedACL, {"getNodeForPath"})
        ELSE IF n.node \notin aclCapable
        THEN AclOutcome(Err("MethodNotAllowed"), storedACL, {"getNodeForPath"})
        ELSE httpACLApply(n.node, getACL(n.node).value,
                          getFlatPrivilegeSet(n.node), normalizeAcl(body)))

-----------------------------------------------------------------------------
(* getPrincipalMembership, tick by tick *)

\* getPrincipalMembership runs over several ticks: it waits for the answer of
\* handler.getNodeForPath and for the answer of node.getGroupMembership, and
\* other requests run in between.  A resolution in flight is a record:
\*    pc          where it waits: "lookup" for the node of cur, "fetch" for
\*                the node to read its memberships, "deliver" for the
\*                continuation to be called with what was read; "done" after
\*    main        mainPrincipal
\*    check,      the two lists of the function
\*    principals
\*    fetched     what node.getGroupMembership read
\*    hit, lookups, cb, err, value, thrown   what the call did: answered from
\*                the cache, calls of getNodeForPath, calls of its
\*                continuation with their arguments, an escaped exception
NotFetched == [kind |-> "none", value |-> <<>>, err |-> NoErr]

IdleRes ==
    [pc |-> "idle", main |-> "", cur |-> "", check |-> <<>>, principals |-> <<>>,
     fetched |-> NotFetched, hit |-> FALSE, lookups |-> 0, cb |-> 0, err |-> NoErr,
     value |-> <<>>, thrown |-> FALSE]

\* checkedAll with the test of err left out: it stores what it has and
\* hands on the error
checkedAll_StoresOnError(err, mainPrincipal, principals, cache) ==
    [cb |-> 1, err |-> err, value |-> IF err.kind # "none" THEN <<>> ELSE principals,
     cache |-> (mainPrincipal :> principals) @@ cache]

\* checkedAll(err): the call of the continuation and the cache after it
checkedAll(err, mainPrincipal, principals, cache) ==
    IF err.kind # "none"
    THEN [cb |-> 1, err |-> err, value |-> <<>>, cache |-> cache]
    ELSE [cb |-> 1, err |-> NoErr, value |-> principals,
          cache |-> (mainPrincipal :> principals) @@ cache]

\* the resolution res ends in checkedAll(err)
finished(res, err, cache) ==
    Then(checkedAll(err, res.main, res.principals, cache), LAMBDA out :
        [res |-> [res EXCEPT !.pc = "done", !.cur = "", !.fetched = NotFetched,
                             !.cb = out.cb, !.err = out.err, !.value = out.value],
         cache |-> out.cache])

\* checkNext(), up to its call of getNodeForPath
checkNextTick(res, cache) ==
    IF res.check = <<>> \/ Head(res.check) = ""
    THEN finished(res, NoErr, cache)
    ELSE [res |-> [res EXCEPT !.pc = "lookup", !.cur = Head(res.check),
                              !.check = Tail(res.check), !.fetched = NotFetched,
                              !.lookups = @ + 1],
          cache |-> cache]

\* getPrincipalMembership that puts its list of principals into the cache
\* before it has traversed anything
getPrincipalMembership_StoresEarly(mainPrincipal, cache) ==
    IF mainPrincipal \in DOMAIN cache
    THEN [res |-> [IdleRes EXCEPT !.pc = "done", !.main = mainPrincipal,
                                  !.hit = TRUE, !.cb = 1,
                                  !.value = cache[mainPrincipal]],
          cache |-> cache]
    ELSE checkNextTick([IdleRes EXCEPT !.main = mainPrincipal,
                                       !.check = <<mainPrincipal>>],
                       (mainPrincipal :> <<>>) @@ cache)

\* getPrincipalMembership(mainPrincipal, callback), its first tick: the test
\* of the cache (a cached list, empty or not, is truthy) and the first
\* checkNext()
getPrincipalMembershipTick(mainPrincipal, cache) ==
    IF mainPrincipal \in DOMAIN cache
    THEN [res |-> [IdleRes EXCEPT !.pc = "done", !.main = mainPrincipal,
                                  !.hit = TRUE, !.cb = 1,
                                  !.value = cache[mainPrincipal]],
          cache |-> cache]
    ELSE checkNextTick([IdleRes EXCEPT !.main = mainPrincipal,
                                       !.check = <<mainPrincipal>>], cache)

\* the continuation of handler.getNodeForPath(principal, ...)
gotPrincipalNode(res, cache) ==
    Then(getNodeForPath(res.cur), LAMBDA n :
        IF n.kind = "err" THEN finished(res, n.err, cache)
        ELSE IF isPrincipal(n.node)
        THEN [res |-> [res EXCEPT !.pc = "fetch"], cache |-> cache]
        ELSE checkNextTick(res, cache))

\* the continuation of node.getGroupMembership(...): the forEach body reads
\* pricipals, a name nothing defines, so its first run raises a
\* ReferenceError and the resolution is left where it is
gotGroupMembership(res, cache) ==
    IF res.fetched.kind = "err" THEN finished(res, res.fetched.err, cache)
    ELSE IF res.fetched.value # <<>>
    THEN [res |-> [res EXCEPT !.pc = "done", !.cur = "", !.fetched = NotFetched,
                              !.thrown = TRUE],
          cache |-> cache]
    ELSE checkNextTick(res, cache)

-----------------------------------------------------------------------------
(* Property update *)

\* the order in which a group node lists its members
PrincipalOrder == <<"principals/alice", "principals/bob", "principals/staff">>

\* the members of group g when the memberships of the principals are gm
membersOf(g, gm) == SelectSeq(PrincipalOrder, LAMBDA p : g \in Range(gm[p]))

\* node.setGroupMemberSet(memberSet): the memberships of the principals
\* after it; a principal is in the groups that list it
setGroupMemberSet(node, memberSet, gm) ==
    [p \in PrincipalNodes |->
        IF p \in Range(memberSet)
        THEN IF node \in Range(gm[p]) THEN gm[p] ELSE Append(gm[p], node)
        ELSE SelectSeq(gm[p], LAMBDA g : g # node)]

\* the value of {DAV:}group-member-set in propertyDelta.  The handler's
\* propertyMap turns the property into an HrefList, so what arrives is an
\* HrefList, null (the property is to be removed) or nothing
NoDelta == [kind |-> "absent", hrefs |-> <<>>]

NullDelta == [kind |-> "null", hrefs |-> <<>>]

HrefList(hrefs) == [kind |-> "HrefList", hrefs |-> hrefs]

\* what updateProperties leaves behind: the status under which result lists
\* the property (0 when it lists it nowhere), the value it returns, and the
\* directory and the cache after it
Updated(status, ret, gm, gms, cache) ==
    [status |-> status, ret |-> ret, groupMembership |-> gm,
     groupMemberSet |-> gms, cache |-> cache]

\* the array_map over calculateUri
memberSetOf(delta) ==
    IF delta.kind = "null" THEN <<>>
    ELSE [k \in 1..Len(delta.hrefs) |-> calculateUri(delta.hrefs[k])]

\* updateProperties that leaves the cache as it is
updateProperties_KeepsCache(delta, node, gm, gms, cache) ==
    IF delta.kind = "absent" THEN Updated(0, "undefined", gm, gms, cache)
    ELSE Then(memberSetOf(delta), LAMBDA memberSet :
        IF ~isPrincipal(node) THEN Updated(403, "false", gm, gms, cache)
        ELSE Updated(200, "undefined", setGroupMemberSet(node, memberSet, gm),
                     [g \in DOMAIN gms |-> IF g = node THEN memberSet ELSE gms[g]],
                     cache))

\* updateProperties without the test of the node for a principal
updateProperties_NoPrincipalTest(delta, node, gm, gms, cache) ==
    IF delta.kind = "absent" THEN Updated(0, "undefined", gm, gms, cache)
    ELSE Then(memberSetOf(delta), LAMBDA memberSet :
        Updated(200, "undefined", setGroupMemberSet(node, memberSet, gm),
                [g \in DOMAIN gms |-> IF g = node THEN memberSet ELSE gms[g]],
                <<>>))

\* updateProperties(propertyDelta, result, node)
updateProperties(delta, node, gm, gms, cache) ==
    IF delta.kind = "absent" THEN Updated(0, "undefined", gm, gms, cache)
    ELSE Then(memberSetOf(delta), LAMBDA memberSet :
        IF ~isPrincipal(node) THEN Updated(403, "false", gm, gms, cache)
        ELSE Updated(200, "undefined", setGroupMemberSet(node, memberSet, gm),
                     [g \in DOMAIN gms |-> IF g = node THEN memberSet ELSE gms[g]],
                     <<>>))

-----------------------------------------------------------------------------
(* Requests *)

\* URIs the privilege checks are asked about
CheckUris == {"files/sub/doc", "files/sub", "principals/alice", "files/sub/new"}

PrivNames == {"{DAV:}read", "{DAV:}write-acl", "{DAV:}unlock-typo"}

SeqsUpTo(S, n) == UNION {[1..k -> S] : k \in 0..n}

PrivLists == SeqsUpTo(PrivNames, MaxPrivs) \ {<<>>}

RecursionModes == {0, R_PARENT, R_RECURSIVE, R_RECURSIVEPARENTS}

\* URIs the ACL method is sent to
AclUris == {"files/sub/doc", "principals/alice", "files/sub/new"}

\* ACEs an ACL request may carry
ReqACEs ==
    { ACE("principals/alice", "{DAV:}read", FALSE),
      ACE("principals/alice", "{DAV:}write-acl", TRUE),
      ACE("/principals/alice/", "{DAV:}write-acl", TRUE),
      ACE("principals/alice", "{DAV:}write-acl", FALSE),
      ACE("principals/ghost", "{DAV:}read", FALSE),
      ACE("files/sub/doc", "{DAV:}read", FALSE),
      ACE("principals/alice", "{DAV:}bogus", FALSE),
      ACE("principals/alice", "{DAV:}all", TRUE) }

AclBodies == SeqsUpTo(ReqACEs, MaxReqLen)

\* ACLs the node files/sub/doc may start with
InitACLs ==
    { <<>>,
      << ACE("principals/alice", "{DAV:}write", FALSE),
         ACE("{DAV:}authenticated", "{DAV:}read", TRUE) >>,
      << ACE("principals/alice", "{DAV:}write-acl", TRUE) >> }

AclConfigs == {FileNodes, {"files/sub/doc"}}

\* what a call of getCurrentUserPrivilegeSet or getFlatPrivilegeSet went
\* through: the list getACL handed it, the caller's principals, the ACEs it
\* collected, the set it handed on, the table getFlatPrivilegeSet handed on
NoEval ==
    [kind |-> "none", acl |-> <<>>, principals |-> <<>>, matched |-> <<>>,
     set |-> <<>>, flat |-> Undefined]

\* what beforeGetProperties did with a property request: the names asked
\* for, the names it answered (status 200) and marked forbidden (status 403),
\* and how often it called e.next and e.stop
NoProps ==
    [requested |-> {}, ok |-> {}, forbidden |-> {}, next |-> 0, stop |-> 0]

Idle ==
    [op |-> "none", uri |-> "", method |-> "", privileges |-> <<>>, recursion |-> 0,
     user |-> "", body |-> <<>>, cb |-> 0, err |-> NoErr, value |-> "none",
     thrown |-> FALSE, calls |-> {}, delta |-> NoDelta, status |-> 0,
     eval |-> NoEval, props |-> NoProps]

\* the calls of getPrincipalMembership and the ACL requests that can be in
\* flight at a time
Resolvers == {1, 2}

Requesters == {1, 2}

\* an ACL request in flight: where it waits, the node and the normalized
\* list of the request, the prior ACL it was handed, and what it did
IdleAcl ==
    [pc |-> "idle", uri |-> "", body |-> <<>>, oldAcl |-> <<>>, err |-> NoErr,
     calls |-> {}]

\* nothing is in flight, and the groups list the members that name them
Quiet ==
    /\ groupMemberSet = [g \in PrincipalNodes |-> membersOf(g, groupMembership)]
    /\ resolutions = [r \in Resolvers |-> IdleRes]
    /\ aclRequests = [q \in Requesters |-> IdleAcl]

Init ==
    /\ aclCapable \in AclConfigs
    /\ \E a \in InitACLs :
           storedACL = [n \in Nodes |->
               IF n \notin aclCapable THEN <<>>
               ELSE IF n = "files/sub/doc" THEN a
               ELSE IF n = "files" THEN << ACE("{DAV:}authenticated", "{DAV:}read", FALSE) >>
               ELSE <<>>]
    /\ \E g \in {<<>>, <<"principals/staff">>} :
           groupMembership = [p \in PrincipalNodes |->
               IF p = "principals/alice" THEN g ELSE <<>>]
    /\ allowAccessToNodesWithoutACL \in BOOLEAN
    /\ adminPrincipals \in {<<>>, <<"principals/alice">>}
    /\ principalMembershipCache = <<>>
    /\ last = Idle
    /\ Quiet

\* a request that ends in a call of checkPrivileges or of a hook built on it
Checked(op, uri, method, privileges, recursion, userName, o) ==
    /\ principalMembershipCache' = o.cache
    /\ last' = [op |-> op, uri |-> uri, method |-> method, privileges |-> privileges,
                recursion |-> recursion, user |-> userName, body |-> <<>>,
                cb |-> o.cb, err |-> o.err, value |-> o.value, thrown |-> o.thrown,
                calls |-> {}, delta |-> NoDelta, status |-> 0, eval |-> NoEval,
                props |-> NoProps]
    /\ UNCHANGED <<config, storedACL, concurrent>>

CheckPrivileges ==
    /\ last.op = "none"
    /\ \E uri \in CheckUris, privileges \in PrivLists,
          recursion \in RecursionModes, userName \in Users :
           \E o \in {checkPrivileges(uri, privileges, recursion, userName,
                                       principalMembershipCache)} :
               Checked("checkPrivileges", uri, "", privileges, recursion, userName, o)

BeforeMethod ==
    /\ last.op = "none"
    /\ \E method \in Methods, uri \in CheckUris, userName \in Users :
           \E o \in {beforeMethod(method, uri, userName, principalMembershipCache)} :
               Checked("beforeMethod", uri, method, <<>>, 0, userName, o)

BeforeBind ==
    /\ last.op = "none"
    /\ \E uri \in CheckUris, userName \in Users :
           \E o \in {beforeBind(uri, userName, principalMembershipCache)} :
               Checked("beforeBind", uri, "", <<>>, 0, userName, o)

BeforeUnbind ==
    /\ last.op = "none"
    /\ \E uri \in CheckUris, userName \in Users :
           \E o \in {beforeUnbind(uri, userName, principalMembershipCache)} :
               Checked("beforeUnbind", uri, "", <<>>, 0, userName, o)

\* unknownMethod for the ACL method: the whole of httpACL
HttpACL ==
    /\ last.op = "none"
    /\ \E uri \in AclUris, body \in AclBodies :
           \E o \in {httpACL(uri, body)} :
              /\ storedACL' = o.stored
              /\ last' = [Idle EXCEPT !.op = "ACL", !.uri = uri, !.method = "ACL",
                                      !.body = body, !.err = o.err, !.calls = o.calls]
    /\ UNCHANGED <<config, principalMembershipCache, concurrent>>

\* the request is answered; the next one is taken up
Respond ==
    /\ last.op # "none"
    /\ last' = Idle
    /\ UNCHANGED <<config, storedACL, principalMembershipCache, concurrent>>

Next ==
    \/ CheckPrivileges
    \/ BeforeMethod
    \/ BeforeBind
    \/ BeforeUnbind
    \/ HttpACL
    \/ Respond

Spec == Init /\ [][Next]_vars

-----------------------------------------------------------------------------
(* The membership directory under concurrent requests *)

\* principals whose membership is asked for: a principal node, a path that
\* names no node, and a node that is no principal
MainPrincipals == {"principals/alice", "principals/ghost", "files/sub/doc"}

\* nodes whose properties are updated
UpdateNodes == {"principals/alice", "principals/staff", "files/sub/doc"}

\* what a property update carries for {DAV:}group-member-set
Deltas ==
    { NoDelta, NullDelta,
      HrefList(<<"/principals/alice/">>),
      HrefList(<<"principals/staff">>),
      HrefList(<<"principals/alice", "principals/ghost">>) }

\* the error of a node that cannot read its memberships
Unavailable == Err("Unavailable")

InitMembership ==
    /\ aclCapable = FileNodes
    /\ storedACL = [n \in Nodes |-> <<>>]
    /\ \E g \in {<<>>, <<"principals/staff">>} :
           groupMembership = [p \in PrincipalNodes |->
               IF p = "principals/alice" THEN g ELSE <<>>]
    /\ allowAccessToNodesWithoutACL = TRUE
    /\ adminPrincipals = <<>>
    /\ principalMembershipCache = <<>>
    /\ last = Idle
    /\ Quiet

\* a step of the resolution r: it and the cache change as o tells
Resolved(r, o) ==
    /\ resolutions' = [resolutions EXCEPT ![r] = o.res]
    /\ principalMembershipCache' = o.cache
    /\ UNCHANGED <<config, storedACL, last, groupMemberSet, aclRequests>>

\* somebody calls getPrincipalMembership
StartResolution ==
    /\ last.op = "none"
    /\ \E r \in Resolvers, mainPrincipal \in MainPrincipals :
           /\ resolutions[r].pc \in {"idle", "done"}
           /\ \E o \in {getPrincipalMembershipTick(mainPrincipal,
                                                   principalMembershipCache)} :
                  Resolved(r, o)

\* the tree answers a getNodeForPath
GotPrincipalNode ==
    /\ last.op = "none"
    /\ \E r \in Resolvers :
           /\ resolutions[r].pc = "lookup"
           /\ \E o \in {gotPrincipalNode(resolutions[r], principalMembershipCache)} :
                  Resolved(r, o)

\* a principal node reads its memberships, or fails to
FetchGroupMembership ==
    /\ last.op = "none"
    /\ \E r \in Resolvers :
           /\ resolutions[r].pc = "fetch"
           /\ \E f \in {[kind |-> "ok", value |-> groupMembership[resolutions[r].cur],
                         err |-> NoErr],
                        [kind |-> "err", value |-> <<>>, err |-> Unavailable]} :
                  resolutions' = [resolutions EXCEPT ![r].pc = "deliver",
                                                     ![r].fetched = f]
    /\ UNCHANGED <<config, storedACL, principalMembershipCache, last,
                   groupMemberSet, aclRequests>>

\* the node hands what it read to the continuation
GotGroupMembership ==
    /\ last.op = "none"
    /\ \E r \in Resolvers :
           /\ resolutions[r].pc = "deliver"
           /\ \E o \in {gotGroupMembership(resolutions[r], principalMembershipCache)} :
                  Resolved(r, o)

\* the updateProperties event of a PROPPATCH on node
UpdateProperties ==
    /\ last.op = "none"
    /\ \E node \in UpdateNodes, delta \in Deltas :
           \E o \in {updateProperties(delta, node, groupMembership, groupMemberSet,
                                      principalMembershipCache)} :
               /\ groupMembership' = o.groupMembership
               /\ groupMemberSet' = o.groupMemberSet
               /\ principalMembershipCache' = o.cache
               /\ last' = [Idle EXCEPT !.op = "updateProperties", !.uri = node,
                                       !.delta = delta, !.status = o.status,
                                       !.value = o.ret]
    /\ UNCHANGED <<aclCapable, allowAccessToNodesWithoutACL, adminPrincipals,
                   storedACL, resolutions, aclRequests>>

NextMembership ==
    \/ StartResolution
    \/ GotPrincipalNode
    \/ FetchGroupMembership
    \/ GotGroupMembership
    \/ UpdateProperties
    \/ Respond

SpecMembership == InitMembership /\ [][NextMembership]_vars

-----------------------------------------------------------------------------
(* ACL requests under way at the same time *)

\* httpACL waits for the tree to answer getNodeForPath and for the node to
\* answer getACL; other requests run in between.  From the answer of getACL
\* to node.setACL it waits for nothing: the value getFlatPrivilegeSet hands
\* on is there at once for nodes without a privilege set of their own, and
\* the loop over newAcl raises at its first entry before any lookup.

\* the forEach over adminPrincipals in the continuation of node.getACL
pushAdminPrincipals(acl) ==
    acl \o [i \in 1..Len(adminPrincipals) |-> AdminACE(adminPrincipals[i])]

\* request bodies of the interleaved requests
RaceBodies ==
    { <<>>,
      << ACE("principals/alice", "{DAV:}read", FALSE) >>,
      << ACE("/principals/alice/", "{DAV:}write-acl", TRUE) >>,
      << ACE("principals/alice", "{DAV:}write-acl", TRUE),
         ACE("principals/alice", "{DAV:}read", FALSE) >> }

\* ACLs files/sub/doc may start with
RaceACLs ==
    { <<>>,
      << ACE("principals/alice", "{DAV:}write", FALSE) >>,
      << ACE("principals/alice", "{DAV:}write-acl", TRUE) >> }

InitAcl ==
    /\ aclCapable = FileNodes
    /\ \E a \in RaceACLs :
           storedACL = [n \in Nodes |-> IF n = "files/sub/doc" THEN a ELSE <<>>]
    /\ groupMembership = [p \in PrincipalNodes |-> <<>>]
    /\ allowAccessToNodesWithoutACL = TRUE
    /\ adminPrincipals \in {<<>>, <<"principals/alice">>}
    /\ principalMembershipCache = <<>>
    /\ last = Idle
    /\ Quiet

\* a step of the ACL request q that stores nothing
AclStep(q, req) ==
    /\ aclRequests' = [aclRequests EXCEPT ![q] = req]
    /\ UNCHANGED <<config, storedACL, principalMembershipCache, last,
                   groupMemberSet, resolutions>>

\* an ACL request arrives: httpACL up to the call of getNodeForPath
AclArrives ==
    \E q \in Requesters, uri \in AclUris, body \in RaceBodies :
        /\ aclRequests[q].pc \in {"idle", "done"}
        /\ AclStep(q, [IdleAcl EXCEPT !.pc = "node", !.uri = uri,
                                      !.body = normalizeAcl(body)])

\* the tree answers: the test of the node, and the call of getACL
AclGotNode ==
    \E q \in Requesters :
        /\ aclRequests[q].pc = "node"
        /\ \E n \in {getNodeForPath(aclRequests[q].uri)} :
               AclStep(q,
                   IF n.kind = "err"
                   THEN [aclRequests[q] EXCEPT !.pc = "done", !.err = n.err,
                                               !.calls = {"getNodeForPath"}]
                   ELSE IF n.node \notin aclCapable
                   THEN [aclRequests[q] EXCEPT !.pc = "done",
                                               !.err = Err("MethodNotAllowed"),
                                               !.calls = {"getNodeForPath"}]
                   ELSE [aclRequests[q] EXCEPT !.pc = "read"])

\* the node reads the list it stores
AclReadStored ==
    \E q \in Requesters :
        /\ aclRequests[q].pc = "read"
        /\ AclStep(q, [aclRequests[q] EXCEPT
                           !.pc = "loaded",
                           !.oldAcl = storedACL[aclRequests[q].uri]])

\* the node hands the list on: the rest of httpACL
AclLoaded ==
    /\ \E q \in Requesters :
           /\ aclRequests[q].pc = "loaded"
           /\ \E o \in {httpACLApply(aclRequests[q].uri,
                                     pushAdminPrincipals(aclRequests[q].oldAcl),
                                     getFlatPrivilegeSet(aclRequests[q].uri),
                                     aclRequests[q].body)} :
                  /\ storedACL' = o.stored
                  /\ aclRequests' = [aclRequests EXCEPT ![q].pc = "done",
                                                        ![q].err = o.err,
                                                        ![q].calls = o.calls]
    /\ UNCHANGED <<config, principalMembershipCache, last, groupMemberSet,
                   resolutions>>

NextAcl ==
    \/ AclArrives
    \/ AclGotNode
    \/ AclReadStored
    \/ AclLoaded

SpecAcl == InitAcl /\ [][NextAcl]_vars

-----------------------------------------------------------------------------
(* The evaluator's own functions, call by call *)

\* ACEs the stored lists are made of: one per reserved token, one for a
\* user's principal and one for a group
EvalACEs ==
    { ACE("{DAV:}all", "{DAV:}read", FALSE),
      ACE("{DAV:}authenticated", "{DAV:}read", FALSE),
      ACE("{DAV:}unauthenticated", "{DAV:}write", FALSE),
      ACE("{DAV:}owner", "{DAV:}write", FALSE),
      ACE("principals/alice", "{DAV:}write", FALSE),
      ACE("principals/staff", "{DAV:}read", TRUE) }

EvalACLs == SeqsUpTo(EvalACEs, MaxAclLen)

\* the users that call the evaluator: those of the requests and one whose
\* principal names no node
Callers == Users \cup {"ghost"}

\* every node with ACL support keeps the same list; files/sub/doc declares
\* an owner, the collections declare none.  principals/alice is in no
\* group, in the group principals/staff, or lists a group that names no node
InitPrivileges ==
    /\ aclCapable \in AclConfigs
    /\ \E a \in EvalACLs :
           storedACL = [n \in Nodes |-> IF n \in aclCapable THEN a ELSE <<>>]
    /\ \E g \in {<<>>, <<"principals/staff">>, <<"principals/ghost">>} :
           groupMembership = [p \in PrincipalNodes |->
               IF p = "principals/alice" THEN g ELSE <<>>]
    /\ allowAccessToNodesWithoutACL = FALSE
    /\ adminPrincipals \in {<<>>, <<"principals/bob">>}
    /\ principalMembershipCache = <<>>
    /\ last = Idle
    /\ Quiet

\* the locals of a call of getCurrentUserPrivilegeSet that ended as o did
evalTrace(uri, userName, cache, o) ==
    Then(getNodeForPath(uri), LAMBDA n :
        IF n.kind = "err" \/ getACL(n.node).kind = "undefined"
        THEN [NoEval EXCEPT !.kind = o.kind]
        ELSE Then(getCurrentUserPrincipals(userName, cache), LAMBDA p :
            IF p.kind # "ok"
            THEN [NoEval EXCEPT !.kind = o.kind, !.acl = getACL(n.node).value]
            ELSE [kind |-> o.kind,
                  acl |-> getACL(n.node).value,
                  principals |-> p.value,
                  matched |-> matchingACEs(getACL(n.node).value, n.node, p.value),
                  set |-> IF o.kind = "ok" THEN o.value ELSE <<>>,
                  flat |-> getFlatPrivilegeSet(n.node)]))

GetCurrentUserPrivilegeSet ==
    /\ last.op = "none"
    /\ \E uri \in CheckUris, userName \in Callers :
           \E o \in {getCurrentUserPrivilegeSet(uri, userName,
                                                principalMembershipCache)} :
              /\ principalMembershipCache' = o.cache
              /\ last' = [Idle EXCEPT
                              !.op = "getCurrentUserPrivilegeSet",
                              !.uri = uri, !.user = userName,
                              !.cb = IF o.kind = "throw" THEN 0 ELSE 1,
                              !.err = IF o.kind = "err" THEN o.err ELSE NoErr,
                              !.thrown = (o.kind = "throw"),
                              !.eval = evalTrace(uri, userName,
                                                 principalMembershipCache, o)]
    /\ UNCHANGED <<config, storedACL, concurrent>>

GetFlatPrivilegeSet ==
    /\ last.op = "none"
    /\ \E node \in Nodes :
           last' = [Idle EXCEPT
                       !.op = "getFlatPrivilegeSet", !.uri = node, !.cb = 1,
                       !.eval = [NoEval EXCEPT
                                    !.kind = "flat",
                                    !.flat = getFlatPrivilegeSet(node)]]
    /\ UNCHANGED <<config, storedACL, principalMembershipCache, concurrent>>

\* checkPrivileges(uri, "{DAV:}read", null, cb) for each of the callers
CheckPrivilegesOfCallers ==
    /\ last.op = "none"
    /\ \E uri \in CheckUris, userName \in Callers :
           \E o \in {checkPrivileges(uri, <<"{DAV:}read">>, 0, userName,
                                     principalMembershipCache)} :
               Checked("checkPrivileges", uri, "", <<"{DAV:}read">>, 0, userName, o)

NextPrivileges ==
    \/ GetCurrentUserPrivilegeSet
    \/ CheckPrivilegesOfCallers
    \/ GetFlatPrivilegeSet
    \/ Respond

SpecPrivileges == InitPrivileges /\ [][NextPrivileges]_vars

-----------------------------------------------------------------------------
(* getACL, call after call *)

\* the list the node keeps once getACL has gone through node.getACL: the
\* administrator entries are pushed onto the list the accessor hands over,
\* which is the node's own list when the accessor hands that over
\* (handsOwnList) and a fresh one when it hands over a copy
keptAfterGetACL(node, handsOwnList) ==
    IF node \in aclCapable /\ handsOwnList
    THEN getACL(node).value
    ELSE storedACL[node]

InitGetACL ==
    /\ aclCapable \in AclConfigs
    /\ \E a \in EvalACLs :
           storedACL = [n \in Nodes |-> IF n \in aclCapable THEN a ELSE <<>>]
    /\ groupMembership = [p \in PrincipalNodes |-> <<>>]
    /\ allowAccessToNodesWithoutACL = FALSE
    /\ adminPrincipals \in {<<>>, <<"principals/bob">>}
    /\ principalMembershipCache = <<>>
    /\ last = Idle
    /\ Quiet

\* getACL(node, cb) for a node object
GetACL ==
    /\ last.op = "none"
    /\ \E node \in FileNodes, handsOwnList \in BOOLEAN :
           /\ Len(storedACL[node]) + Len(adminPrincipals) <= MaxKeptLen
           /\ storedACL' = [storedACL EXCEPT
                                ![node] = keptAfterGetACL(node, handsOwnList)]
           /\ last' = [Idle EXCEPT
                           !.op = "getACL", !.uri = node, !.cb = 1,
                           !.eval = [NoEval EXCEPT
                                        !.kind = getACL(node).kind,
                                        !.acl = IF getACL(node).kind = "ok"
                                                THEN getACL(node).value
                                                ELSE <<>>]]
    /\ UNCHANGED <<config, principalMembershipCache, concurrent>>

NextGetACL ==
    \/ GetACL
    \/ Respond

SpecGetACL == InitGetACL /\ [][NextGetACL]_vars

-----------------------------------------------------------------------------
(* Property requests *)

\* the properties a request asks for
PropertyNames ==
    {"{DAV:}acl", "{DAV:}current-user-privilege-set", "{DAV:}acl-restrictions"}

BeforeGetProperties ==
    /\ last.op = "none"
    /\ \E uri \in FileNodes, userName \in Users, requested \in SUBSET PropertyNames :
           \E o \in {beforeGetProperties(uri, userName, requested,
                                         principalMembershipCache)} :
              /\ principalMembershipCache' = o.cache
              /\ last' = [Idle EXCEPT
                              !.op = "beforeGetProperties",
                              !.uri = uri, !.user = userName,
                              !.thrown = o.thrown,
                              !.props = [requested |-> requested, ok |-> o.ok,
                                         forbidden |-> o.forbidden,
                                         next |-> o.next, stop |-> o.stop]]
    /\ UNCHANGED <<config, storedACL, concurrent>>

NextProperties ==
    \/ BeforeGetProperties
    \/ Respond

SpecProperties == Init /\ [][NextProperties]_vars

-----------------------------------------------------------------------------
(* Notions the properties below are stated in *)

\* the request in last was a call of checkPrivileges
IsCheck == last.op = "checkPrivileges"

\* the request in last went through checkPrivileges, directly or by a hook
IsGate == last.op \in {"checkPrivileges", "beforeMethod", "beforeBind", "beforeUnbind"}

\* the continuation was told that access is granted / denied for lack of privs
Granted == last.cb = 1 /\ last.err.kind = "none" /\ ~last.thrown

DeniedWith(privs) ==
    /\ last.cb = 1
    /\ last.err = NeedPrivileges(last.uri, privs)

\* the caller's effective privilege set on a node, where one is computed
Effective(uri, userName) ==
    getCurrentUserPrivilegeSet(uri, userName, principalMembershipCache)

\* the required privileges the set eff lacks, in the order they were given
MissingFrom(privs, eff) == SelectSeq(privs, LAMBDA q : q \notin Range(eff))

\* the nodes a recursion mode covers
RECURSIVE AncestorsOf(_)
AncestorsOf(uri) ==
    IF splitPathParent(uri) = "" THEN {}
    ELSE {splitPathParent(uri)} \cup AncestorsOf(splitPathParent(uri))

Scope(uri, recursion) ==
    CASE recursion = R_RECURSIVE -> {uri} \cup {n \in Nodes : uri \in AncestorsOf(n)}
      [] recursion = R_RECURSIVEPARENTS -> {uri} \cup (AncestorsOf(uri) \cap Nodes)
      [] OTHER -> {uri}

\* the caller holds all of privs on node n (a node without ACL support
\* passes when the policy admits such nodes)
HoldsAt(n, privs, userName) ==
    IF n \notin aclCapable THEN allowAccessToNodesWithoutACL
    ELSE /\ Effective(n, userName).kind = "ok"
         /\ Range(privs) \subseteq Range(Effective(n, userName).value)

\* a protected entry of old that new does not hold as the same triple
DropsProtected(old, new) ==
    \E i \in 1..Len(old) : old[i].protected /\ old[i] \notin Range(new)

-----------------------------------------------------------------------------
(* C1 .. C4: the authorization gate *)

\* C1: on a resource with ACL support, checkPrivileges grants iff no required
\* privilege is missing from the caller's effective set, and otherwise fails
\* with NeedPrivileges listing exactly the missing required privileges.
C1_ExactlyMissing ==
    (/\ IsCheck
     /\ last.uri \in aclCapable
     /\ Effective(last.uri, last.user).kind = "ok")
    => IF MissingFrom(last.privileges, Effective(last.uri, last.user).value) = <<>>
       THEN Granted
       ELSE DeniedWith(MissingFrom(last.privileges,
                                   Effective(last.uri, last.user).value))

\* C2: on a resource without ACL support, checkPrivileges grants when
\* allowAccessToNodesWithoutACL is set and fails with NeedPrivileges(uri, all
\* required privileges) when it is not; on a resource with ACL support the
\* flag does not decide: what is granted is what the effective set holds.
C2_PolicyForNodesWithoutACL ==
    /\ (IsCheck /\ last.uri \in Nodes /\ last.uri \notin aclCapable)
       => IF allowAccessToNodesWithoutACL THEN Granted
          ELSE DeniedWith(last.privileges)
    /\ (IsCheck /\ last.uri \in aclCapable /\ Granted)
       => HoldsAt(last.uri, last.privileges, last.user)

\* C3: checkPrivileges grants only if the required privileges are held at
\* every node its recursion mode covers: the target; the target and its
\* descendants; the target and its ancestors.
C3_RecursionScope ==
    (IsCheck /\ Granted /\ last.value = "true")
    => \A n \in Scope(last.uri, last.recursion) :
           HoldsAt(n, last.privileges, last.user)

\* C4: a finished call of checkPrivileges, and of a hook that hands it its
\* continuation, has called that continuation exactly once.
C4_CallbackOnce == IsGate => last.cb = 1

-----------------------------------------------------------------------------
(* C5 .. C10: the ACL method *)

C7_ProtectedSurvive ==
    [][ \A n \in Nodes : \A i \in 1..Len(storedACL[n]) :
            storedACL[n][i].protected => storedACL[n][i] \in Range(storedACL'[n]) ]_vars

\* an ACL request has been handled on a resource that stores a protected
\* entry, which is still there
C7_Witness ==
    /\ last.op = "ACL"
    /\ last.uri \in aclCapable
    /\ \E i \in 1..Len(storedACL[last.uri]) : storedACL[last.uri][i].protected

\* C8: an ACL request with an entry whose privilege is not in the flattened
\* catalog fails with NotSupportedPrivilege, one with an entry whose privilege
\* is abstract fails with NoAbstract, and an entry whose privilege is in the
\* catalog and not abstract passes the privilege check.  Stated for requests
\* of one entry on a resource without protected entries, where no other check
\* can come first.
C8_PrivilegeChecks ==
    (/\ last.op = "ACL"
     /\ last.uri \in aclCapable
     /\ Len(last.body) = 1
     /\ ~DropsProtected(getACL(last.uri).value, normalizeAcl(last.body))
     /\ last.calls # {})
    => LET flat == getFPSTraverse(getSupportedPrivilegeSet(last.uri), "null",
                                  [flat |-> <<>>, myPriv |-> Undefined]).flat
           q == last.body[1].privilege
       IN CASE q \notin DOMAIN flat -> last.err.kind = "NotSupportedPrivilege"
            [] flat[q].abstract -> last.err.kind = "NoAbstract"
            [] OTHER -> last.err.kind \notin {"NotSupportedPrivilege", "NoAbstract"}

\* C9: an ACL request with an entry whose principal path names no node, or a
\* node that is no principal, fails with NotRecognizedPrincipal.  Stated for
\* requests of one entry with a concrete privilege of the catalog, on a
\* resource without protected entries, where no other check can come first.
C9_UnknownPrincipal ==
    (/\ last.op = "ACL"
     /\ last.uri \in aclCapable
     /\ Len(last.body) = 1
     /\ ~DropsProtected(getACL(last.uri).value, normalizeAcl(last.body))
     /\ last.body[1].privilege \in {"{DAV:}read", "{DAV:}write"}
     /\ calculateUri(last.body[1].principal) \notin PrincipalNodes)
    => last.err.kind = "NotRecognizedPrincipal"

\* C10: an ACL request on a node without ACL support fails with
\* MethodNotAllowed before the prior ACL is loaded or an entry is checked,
\* and leaves every stored ACL as it was.
C10_MethodNotAllowed ==
    [][ (last'.op = "ACL" /\ last'.uri \in Nodes /\ last'.uri \notin aclCapable)
        => (/\ last'.err.kind = "MethodNotAllowed"
            /\ last'.calls = {"getNodeForPath"}
            /\ storedACL' = storedACL) ]_vars

\* a request with entries has been refused on a principal node, which has no
\* ACL support
C10_Witness ==
    /\ last.op = "ACL"
    /\ last.uri = "principals/alice"
    /\ last.uri \notin aclCapable
    /\ last.body # <<>>
    /\ last.err.kind = "MethodNotAllowed"

-----------------------------------------------------------------------------
(* C11: what a passing ACL request stores *)

\* the flattened catalog of a node as the traversal fills it
Catalog(node) ==
    getFPSTraverse(getSupportedPrivilegeSet(node), "null",
                   [flat |-> <<>>, myPriv |-> Undefined]).flat

\* the request newAcl passes every check the ACL method makes on node: it
\* repeats the protected entries of the prior ACL, and each of its entries
\* names a concrete privilege of the catalog and a principal node
PassesEveryCheck(node, newAcl) ==
    /\ ~DropsProtected(getACL(node).value, newAcl)
    /\ \A k \in 1..Len(newAcl) :
           /\ newAcl[k].privilege \in DOMAIN Catalog(node)
           /\ ~Catalog(node)[newAcl[k].privilege].abstract
           /\ newAcl[k].principal \in PrincipalNodes

\* C11: an ACL request that passes every check replaces the stored ACL of
\* its resource with exactly the requested list, principals normalized, and
\* the list then stored holds no entry made up for an administrator principal.
C11_ReplacesWithRequested ==
    [][ (/\ last'.op = "ACL"
         /\ last'.uri \in aclCapable
         /\ PassesEveryCheck(last'.uri, normalizeAcl(last'.body)))
        => (/\ last'.err.kind = "none"
            /\ storedACL'[last'.uri] = normalizeAcl(last'.body)
            /\ \A i \in 1..Len(adminPrincipals) :
                   AdminACE(adminPrincipals[i]) \notin Range(storedACL'[last'.uri]))
      ]_vars

-----------------------------------------------------------------------------
(* C13 .. C15: the membership cache under concurrent requests *)

\* the groups reached from a principal by one or more membership edges,
\* each once, in the order a breadth-first traversal discovers them; visited
\* starts with the principal itself, and only principal nodes have edges
RECURSIVE Discover(_, _, _, _)
Discover(queue, visited, result, gm) ==
    IF queue = <<>> THEN result
    ELSE LET direct == IF Head(queue) \in PrincipalNodes
                       THEN makeUnique(gm[Head(queue)]) ELSE <<>>
             fresh == SelectSeq(direct, LAMBDA g : g \notin visited)
         IN Discover(Tail(queue) \o fresh, visited \cup Range(fresh),
                     result \o fresh, gm)

Closure(principal, gm) == Discover(<<principal>>, {principal}, <<>>, gm)

\* this step ends the call of getPrincipalMembership that r stands for
Ends(r) == resolutions'[r] # resolutions[r] /\ resolutions'[r].pc = "done"

\* this step gives the cache an entry for p, or another entry than it had
CacheChangedAt(p) ==
    /\ p \in DOMAIN principalMembershipCache'
    /\ \/ p \notin DOMAIN principalMembershipCache
       \/ principalMembershipCache'[p] # principalMembershipCache[p]

\* C13: what a call of getPrincipalMembership returns from the cache is the
\* closure of the memberships as the last group-member-set update left them,
\* also when a resolution that began before the update stored its result
\* after it.
C13_NeverStale ==
    [][ \A r \in Resolvers :
            (Ends(r) /\ resolutions'[r].hit)
            => resolutions'[r].value = Closure(resolutions'[r].main, groupMembership)
      ]_vars

\* C14: whatever resolutions and cache clears are interleaved, the cache
\* gets an entry for a principal only in the step that ends a resolution
\* for that principal without error, and the entry is the list that
\* resolution hands to its continuation, with nothing left to traverse.
C14_OnlyFinishedResults ==
    [][ \A p \in MainPrincipals :
            CacheChangedAt(p)
            => \E r \in Resolvers :
                   /\ resolutions[r].main = p
                   /\ resolutions[r].pc \in {"lookup", "deliver"}
                   /\ resolutions[r].check = <<>>
                   /\ Ends(r)
                   /\ resolutions'[r].cb = 1
                   /\ resolutions'[r].err.kind = "none"
                   /\ ~resolutions'[r].thrown
                   /\ resolutions'[r].value = principalMembershipCache'[p]
      ]_vars

\* two calls for principals/alice both missed the cache; one has ended and
\* stored its result while the other is still under way
C14_Witness ==
    \E r1, r2 \in Resolvers :
        /\ r1 # r2
        /\ resolutions[r1].main = "principals/alice"
        /\ resolutions[r2].main = "principals/alice"
        /\ resolutions[r1].pc = "done" /\ ~resolutions[r1].hit
        /\ resolutions[r1].cb = 1 /\ resolutions[r1].err.kind = "none"
        /\ resolutions[r2].pc \in {"lookup", "fetch", "deliver"}
        /\ "principals/alice" \in DOMAIN principalMembershipCache
        /\ principalMembershipCache["principals/alice"] = resolutions[r1].value

\* the step ends resolution r by handing error e and an empty list to the
\* continuation, and the cache is what it was
FailsWith(r, e) ==
    /\ Ends(r)
    /\ resolutions'[r].cb = 1
    /\ resolutions'[r].err = e
    /\ resolutions'[r].value = <<>>
    /\ ~resolutions'[r].hit
    /\ principalMembershipCache' = principalMembershipCache

\* C15: a resolution whose lookup of a principal fails, or whose fetch of a
\* group membership fails, ends with that error, and the step writes
\* nothing to the cache; a resolution ends with an error in no other way.
C15_FailureCachesNothing ==
    [][ \A r \in Resolvers :
            resolutions'[r] # resolutions[r]
            => /\ (resolutions[r].pc = "lookup" /\ resolutions[r].cur \notin Nodes)
                  => FailsWith(r, Err("NotFound"))
               /\ (resolutions[r].pc = "deliver" /\ resolutions[r].fetched.kind = "err")
                  => FailsWith(r, resolutions[r].fetched.err)
               /\ (Ends(r) /\ resolutions'[r].err.kind # "none")
                  => FailsWith(r, resolutions'[r].err)
      ]_vars

\* a resolution for principals/alice has ended with the error of the fetch,
\* one for a path without node with the error of the lookup, and the cache
\* holds no entry for either
C15_Witness ==
    \E r1, r2 \in Resolvers :
        /\ resolutions[r1].pc = "done" /\ resolutions[r1].main = "principals/alice"
        /\ resolutions[r1].err = Unavailable /\ resolutions[r1].cb = 1
        /\ resolutions[r2].pc = "done" /\ resolutions[r2].main = "principals/ghost"
        /\ resolutions[r2].err = Err("NotFound") /\ resolutions[r2].cb = 1
        /\ "principals/alice" \notin DOMAIN principalMembershipCache
        /\ "principals/ghost" \notin DOMAIN principalMembershipCache

-----------------------------------------------------------------------------
(* C16, C17: the group-member-set property update *)

\* the step is a property update that names {DAV:}group-member-set
UpdatesMemberSet ==
    last'.op = "updateProperties" /\ last'.delta.kind # "absent"

\* the step leaves the member lists, the memberships and the cache alone
DirectoryUntouched ==
    /\ groupMemberSet' = groupMemberSet
    /\ groupMembership' = groupMembership
    /\ principalMembershipCache' = principalMembershipCache

\* C16: a group-member-set update on a principal node makes the submitted
\* list, its hrefs normalized (none for a null value), the member list of
\* that node and of no other, leaves the cache without any entry, and lists
\* the property under status 200.
C16_ReplacesAndClears ==
    [][ (UpdatesMemberSet /\ isPrincipal(last'.uri))
        => (/\ groupMemberSet'[last'.uri] =
                   (IF last'.delta.kind = "null" THEN <<>>
                    ELSE [k \in 1..Len(last'.delta.hrefs) |->
                             calculateUri(last'.delta.hrefs[k])])
            /\ \A g \in PrincipalNodes \ {last'.uri} :
                   groupMemberSet'[g] = groupMemberSet[g]
            /\ DOMAIN principalMembershipCache' = {}
            /\ last'.status = 200)
      ]_vars

\* principals/staff has just been given the member principals/alice by an
\* href that had to be normalized, after a resolution had stored its result;
\* the cache is empty
C16_Witness ==
    /\ last.op = "updateProperties"
    /\ last.uri = "principals/staff"
    /\ last.delta = HrefList(<<"/principals/alice/">>)
    /\ last.status = 200
    /\ groupMemberSet["principals/staff"] = <<"principals/alice">>
    /\ DOMAIN principalMembershipCache = {}
    /\ \E r \in Resolvers :
           /\ resolutions[r].pc = "done" /\ ~resolutions[r].hit
           /\ resolutions[r].cb = 1 /\ resolutions[r].err.kind = "none"

\* C17: a group-member-set update on a node that is no principal lists the
\* property under status 403 and returns false, which stops the update; it
\* changes no member list and not the cache.  An update that does not name
\* group-member-set lists nothing, returns nothing and changes neither.
C17_RefusedLeavesDirectory ==
    [][ /\ (UpdatesMemberSet /\ ~isPrincipal(last'.uri))
           => (last'.status = 403 /\ last'.value = "false" /\ DirectoryUntouched)
        /\ (last'.op = "updateProperties" /\ last'.delta.kind = "absent")
           => (last'.status = 0 /\ last'.value = "undefined" /\ DirectoryUntouched)
      ]_vars

\* an update of group-member-set has just been refused on files/sub/doc
\* while the cache held an entry, which it still holds
C17_Witness ==
    /\ last.op = "updateProperties"
    /\ last.uri = "files/sub/doc"
    /\ last.delta.kind = "HrefList"
    /\ last.status = 403
    /\ "principals/alice" \in DOMAIN principalMembershipCache

-----------------------------------------------------------------------------
(* C18 .. C20: what getPrincipalMembership returns *)

\* the step ends a resolution r that missed the cache and that was handed
\* the memberships as the node holds them now
EndsTraversal(r) ==
    /\ Ends(r)
    /\ ~resolutions'[r].hit
    /\ resolutions[r].pc = "deliver"
         => /\ resolutions[r].fetched.kind = "ok"
            /\ resolutions[r].fetched.value = groupMembership[resolutions[r].cur]

\* principals/alice lists principals/staff as a group and the other way round
Cycle ==
    /\ "principals/staff" \in Range(groupMembership["principals/alice"])
    /\ "principals/alice" \in Range(groupMembership["principals/staff"])

\* how often x occurs in the list s
Count(x, s) == Len(SelectSeq(s, LAMBDA y : y = x))

\* C18: on a membership cycle between principals/alice and principals/staff
\* the resolution for principals/alice ends by handing its continuation a
\* list that holds principals/staff exactly once and not principals/alice.
C18_CycleSafe ==
    [][ \A r \in Resolvers :
            (/\ EndsTraversal(r)
             /\ resolutions'[r].main = "principals/alice"
             /\ Cycle)
            => (/\ resolutions'[r].cb = 1
                /\ ~resolutions'[r].thrown
                /\ resolutions'[r].err.kind = "none"
                /\ Count("principals/staff", resolutions'[r].value) = 1
                /\ Count("principals/alice", resolutions'[r].value) = 0)
      ]_vars

\* C19: a resolution that missed the cache and met no failing lookup or
\* fetch hands its continuation the groups reachable from the principal by
\* one or more membership edges through principal nodes, each once, in
\* breadth-first order of discovery; a node that is no principal adds none.
C19_BreadthFirstClosure ==
    [][ \A r \in Resolvers :
            (EndsTraversal(r) /\ resolutions'[r].err.kind = "none")
            => (/\ resolutions'[r].cb = 1
                /\ ~resolutions'[r].thrown
                /\ resolutions'[r].value =
                       Closure(resolutions'[r].main, groupMembership))
      ]_vars

\* C20: a call for a principal the cache has an entry for, empty or not, is
\* answered with that entry without a lookup of any node, and the entry is
\* what a traversal without cache hands on for the memberships as they are.
C20_CacheTransparent ==
    [][ \A r \in Resolvers :
            (/\ Ends(r)
             /\ resolutions[r].pc \in {"idle", "done"}
             /\ resolutions'[r].main \in DOMAIN principalMembershipCache)
            => (/\ resolutions'[r].hit
                /\ resolutions'[r].lookups = 0
                /\ resolutions'[r].cb = 1
                /\ resolutions'[r].value =
                       principalMembershipCache[resolutions'[r].main]
                /\ getPrincipalMembership(resolutions'[r].main, <<>>).kind = "ok"
                /\ getPrincipalMembership(resolutions'[r].main, <<>>).value =
                       resolutions'[r].value)
      ]_vars

-----------------------------------------------------------------------------
(* C12: interleaved ACL requests *)

-----------------------------------------------------------------------------
(* C21 .. C27: what the effective privilege set holds *)

\* the request in last was a call of getCurrentUserPrivilegeSet
IsEvaluation == last.op = "getCurrentUserPrivilegeSet"

\* the call in last handed its continuation a privilege set
ReturnedSet == IsEvaluation /\ last.eval.kind = "ok"

\* the names of a privilege tree
RECURSIVE NamesOf(_)
NamesOf(priv) ==
    {priv.privilege} \cup
    UNION {NamesOf(priv.aggregates[i]) : i \in DOMAIN priv.aggregates}

\* the privilege called name in the tree priv, with everything it aggregates,
\* directly or through other privileges
RECURSIVE Below(_, _)
Below(name, priv) ==
    IF priv.privilege = name THEN NamesOf(priv)
    ELSE UNION {Below(name, priv.aggregates[i]) : i \in DOMAIN priv.aggregates}

\* the list getACL hands on for the node of the call in last
AclOfCall == getACL(last.uri).value

\* C21: when the ACL of a resource holds an entry for the {DAV:}all token with
\* privilege P, the effective set of every authenticated caller on that
\* resource contains P and everything P aggregates, directly or transitively.
C21_AllTokenGrants ==
    (IsEvaluation /\ last.user # "" /\ last.uri \in aclCapable)
    => \A i \in DOMAIN AclOfCall :
           AclOfCall[i].principal = "{DAV:}all"
           => /\ ReturnedSet
              /\ Below(AclOfCall[i].privilege, getSupportedPrivilegeSet(last.uri))
                     \subseteq Range(last.eval.set)

\* the ACL without its entries for the {DAV:}unauthenticated token
WithoutUnauthenticated(acl) ==
    SelectSeq(acl, LAMBDA ace : ace.principal # "{DAV:}unauthenticated")

\* the call in last ended as a call made on the list acl ends
SameOutcomeOn(acl) ==
    Then(gotACL([kind |-> "ok", value |-> acl], last.uri, last.user,
                principalMembershipCache),
         LAMBDA r :
             /\ r.kind = last.eval.kind
             /\ r.kind = "ok" => r.value = last.eval.set)

\* C22: an entry for the {DAV:}unauthenticated token is never among the
\* entries a call collects, and the call ends as it ends on the same ACL with
\* those entries taken out, whoever the caller is.
C22_UnauthenticatedIgnored ==
    (IsEvaluation /\ last.uri \in aclCapable)
    => /\ \A i \in DOMAIN last.eval.matched :
              last.eval.matched[i].principal # "{DAV:}unauthenticated"
       /\ SameOutcomeOn(WithoutUnauthenticated(AclOfCall))

\* a set was handed on for a logged-in caller on an ACL that holds an entry
\* for the {DAV:}unauthenticated token
C22_Witness ==
    /\ ReturnedSet
    /\ last.user # ""
    /\ last.uri \in aclCapable
    /\ \E i \in DOMAIN AclOfCall : AclOfCall[i].principal = "{DAV:}unauthenticated"

\* the caller's principal set: the user's own principal and every group its
\* memberships lead to; nothing when nobody is logged in
PrincipalSet(userName) ==
    IF userName = "" THEN {}
    ELSE {defaultUsernamePath \o "/" \o userName} \cup
         Range(Closure(defaultUsernamePath \o "/" \o userName, groupMembership))

\* the call in last got as far as going through the entries of the ACL
WentThroughACL ==
    /\ IsEvaluation
    /\ last.uri \in aclCapable
    /\ getCurrentUserPrincipals(last.user, principalMembershipCache).kind = "ok"

Tokens ==
    {"{DAV:}owner", "{DAV:}all", "{DAV:}authenticated", "{DAV:}unauthenticated"}

\* C24: an entry that names a principal applies to the caller iff that
\* principal is in the caller's principal set (the caller's own principal and
\* the groups its memberships lead to): the privilege of an entry that
\* applies, an entry for one of the caller's groups included, is in the
\* caller's effective set, and an entry that does not apply is not collected.
C24_LiteralPrincipal ==
    (IsEvaluation /\ last.uri \in aclCapable)
    => \A i \in DOMAIN AclOfCall :
           AclOfCall[i].principal \notin Tokens
           => IF AclOfCall[i].principal \in PrincipalSet(last.user)
              THEN ReturnedSet /\ AclOfCall[i].privilege \in Range(last.eval.set)
              ELSE AclOfCall[i] \notin Range(last.eval.matched)

ExampleACL ==
    << ACE("principals/alice", "{DAV:}write", FALSE),
       ACE("{DAV:}authenticated", "{DAV:}read", TRUE) >>

ExampleSet ==
    {"{DAV:}write", "{DAV:}write-acl", "{DAV:}write-properties",
     "{DAV:}write-content", "{DAV:}bind", "{DAV:}unbind", "{DAV:}unlock",
     "{DAV:}read", "{DAV:}read-acl", "{DAV:}read-current-user-privilege-set"}

\* alice, member of no group, asked checkPrivileges about the resource that
\* keeps the example ACL
ExampleCheck ==
    /\ IsCheck
    /\ last.uri = "files/sub/doc"
    /\ last.user = "alice"
    /\ "files/sub/doc" \in aclCapable
    /\ storedACL["files/sub/doc"] = ExampleACL
    /\ adminPrincipals = <<>>
    /\ groupMembership["principals/alice"] = <<>>

\* C26: in the example scenario the effective set of alice is exactly the ten
\* privileges below {DAV:}write and {DAV:}read, checkPrivileges for
\* {DAV:}write-acl succeeds, and checkPrivileges for {DAV:}unlock-typo fails
\* with NeedPrivileges naming {DAV:}unlock-typo.
C26_ExampleScenario ==
    ExampleCheck
    => /\ Effective("files/sub/doc", "alice").kind = "ok"
       /\ Range(Effective("files/sub/doc", "alice").value) = ExampleSet
       /\ last.privileges = <<"{DAV:}write-acl">> => Granted
       /\ last.privileges = <<"{DAV:}unlock-typo">>
              => DeniedWith(<<"{DAV:}unlock-typo">>)

\* the lists that hold the entries of acl in another order, and those that
\* hold one entry of acl once more, at the front or at the end
Reordered(acl) ==
    {[i \in DOMAIN acl |-> acl[f[i]]] : f \in Permutations(DOMAIN acl)}

WithDuplicate(acl) ==
    {Append(acl, acl[i]) : i \in DOMAIN acl} \cup
    {<<acl[i]>> \o acl : i \in DOMAIN acl}

\* the call in last ended as a call made on the list acl ends, and with the
\* same privileges where a set is handed on
SameSetOn(acl) ==
    Then(gotACL([kind |-> "ok", value |-> acl], last.uri, last.user,
                principalMembershipCache),
         LAMBDA r :
             /\ r.kind = last.eval.kind
             /\ r.kind = "ok" => Range(r.value) = Range(last.eval.set))

-----------------------------------------------------------------------------
(* C28 .. C30: administrator entries and the flat privilege table *)

\* the entries getACL adds for the administrator principals
AdminEntries == [i \in 1..Len(adminPrincipals) |-> AdminACE(adminPrincipals[i])]

\* C28: a call of getACL on a resource with ACL support hands on the list the
\* resource keeps followed by one protected {DAV:}all entry for each
\* administrator principal, exactly one per principal, and leaves the list
\* the resource keeps as it was, however many calls went before.
C28_SyntheticNotKept ==
    [][(last.op = "none" /\ last'.op = "getACL" /\ last'.uri \in aclCapable)
       => /\ last'.eval.acl = storedACL[last'.uri] \o AdminEntries
          /\ \A a \in Range(adminPrincipals) :
                 Count(AdminACE(a), last'.eval.acl) = 1
          /\ storedACL' = storedACL]_vars

\* C29: a caller whose principal set holds an administrator principal holds,
\* on every resource with ACL support and whatever ACL it keeps, {DAV:}all
\* and every other privilege of the resource's catalog, and checkPrivileges
\* grants such a caller any privileges of the catalog.
C29_AdminHoldsAll ==
    (/\ IsCheck
     /\ last.uri \in aclCapable
     /\ PrincipalSet(last.user) \cap Range(adminPrincipals) # {})
    => /\ \A n \in aclCapable :
              /\ Effective(n, last.user).kind = "ok"
              /\ NamesOf(getSupportedPrivilegeSet(n))
                     \subseteq Range(Effective(n, last.user).value)
       /\ Range(last.privileges) \subseteq NamesOf(getSupportedPrivilegeSet(last.uri))
              => Granted

\* the privileges of a tree, each with the subtree below it
RECURSIVE SubtreesOf(_)
SubtreesOf(priv) ==
    {priv} \cup
    UNION {SubtreesOf(priv.aggregates[i]) : i \in DOMAIN priv.aggregates}

\* table lists every privilege of tree, nothing else, and for each of them
\* the names of its immediate children
FlatOf(table, tree) ==
    /\ DOMAIN table = NamesOf(tree)
    /\ \A t \in SubtreesOf(tree) :
           table[t.privilege].aggregates =
               [i \in DOMAIN t.aggregates |-> t.aggregates[i].privilege]

\* C30: getFlatPrivilegeSet hands on a table with one entry for every
\* privilege name of the tree and none for any other name, each entry lists
\* the immediate children of its privilege as aggregates, and flattening the
\* tree again gives the same table.
C30_FlatteningTotal ==
    last.op = "getFlatPrivilegeSet"
    => /\ last.eval.flat.kind = "ok"
       /\ FlatOf(last.eval.flat.table, getSupportedPrivilegeSet(last.uri))
       /\ getFlatPrivilegeSet(last.uri) = last.eval.flat

-----------------------------------------------------------------------------
(* C31 .. C35: the hooks and the handling of lookup failures *)

\* the privilege a method needs on the node it is sent to, and whether the
\* whole subtree below the node must grant it
RequiredFor(method) ==
    CASE method \in {"GET", "HEAD", "OPTIONS"} -> "{DAV:}read"
      [] method \in {"PUT", "LOCK", "UNLOCK"}  -> "{DAV:}write-content"
      [] method = "PROPPATCH"                  -> "{DAV:}write-properties"
      [] method = "ACL"                        -> "{DAV:}write-acl"
      [] method \in {"COPY", "MOVE"}           -> "{DAV:}read"
      [] OTHER                                 -> ""

ScopeFor(method) == IF method \in {"COPY", "MOVE"} THEN R_RECURSIVE ELSE 0

\* the caller of the request in last holds priv on every node of the scope
HoldsOver(uri, recursion, priv) ==
    \A n \in Scope(uri, recursion) : HoldsAt(n, <<priv>>, last.user)

\* C31: before a method of the mapping runs on an existing node, beforeMethod
\* lets it proceed iff the caller holds the privilege mapped to the method
\* ({DAV:}read over the whole subtree for COPY and MOVE), and aborts it with
\* NeedPrivileges naming that privilege otherwise.
C31_MethodPrivileges ==
    (/\ last.op = "beforeMethod"
     /\ last.uri \in Nodes
     /\ RequiredFor(last.method) # "")
    => IF HoldsOver(last.uri, ScopeFor(last.method), RequiredFor(last.method))
       THEN Granted
       ELSE DeniedWith(<<RequiredFor(last.method)>>)

\* the hook of the request in last aborted it for lack of priv on the parent
AbortedOnParent(priv) ==
    /\ last.cb = 1
    /\ last.err = NeedPrivileges(splitPathParent(last.uri), <<priv>>)

\* C32: the creation of a node at uri proceeds iff the caller holds
\* {DAV:}bind on the parent collection of uri, the deletion of the node at
\* uri iff the caller holds {DAV:}unbind on the parent of uri and on every
\* collection above it; otherwise the hook aborts with NeedPrivileges on the
\* parent path.  What the caller holds on uri itself is not asked for.
C32_BindOnParent ==
    /\ last.op = "beforeBind"
       => IF HoldsOver(splitPathParent(last.uri), 0, "{DAV:}bind")
          THEN Granted
          ELSE AbortedOnParent("{DAV:}bind")
    /\ last.op = "beforeUnbind"
       => IF HoldsOver(splitPathParent(last.uri), R_RECURSIVEPARENTS,
                       "{DAV:}unbind")
          THEN Granted
          ELSE AbortedOnParent("{DAV:}unbind")

\* the request in last was a property request of a caller whom the check for
\* {DAV:}read on the node lets through
ReadableRequest ==
    /\ last.op = "beforeGetProperties"
    /\ checkPrivileges(last.uri, <<"{DAV:}read">>, R_PARENT, last.user,
                       principalMembershipCache).value = "true"

\* the caller of the request in last does not hold priv on its node
Lacks(priv) == ~HoldsAt(last.uri, <<priv>>, last.user)

\* C33: in a property request of a caller who may read the node, {DAV:}acl is
\* marked forbidden when the caller lacks {DAV:}read-acl, and
\* {DAV:}current-user-privilege-set when the caller lacks
\* {DAV:}read-current-user-privilege-set; the other properties asked for are
\* answered all the same, and the request is handed on, not stopped.
C33_PropertiesGatedIndividually ==
    ReadableRequest
    => /\ ("{DAV:}acl" \in last.props.requested /\ Lacks("{DAV:}read-acl"))
              => "{DAV:}acl" \in last.props.forbidden
       /\ (/\ "{DAV:}current-user-privilege-set" \in last.props.requested
           /\ Lacks("{DAV:}read-current-user-privilege-set"))
              => "{DAV:}current-user-privilege-set" \in last.props.forbidden
       /\ "{DAV:}acl-restrictions" \in last.props.requested
              => "{DAV:}acl-restrictions" \in last.props.ok
       /\ last.props.next = 1
       /\ last.props.stop = 0
       /\ ~last.thrown

\* the call in last went through getCurrentUserPrivilegeSet
IsEvaluationOrCheck == IsEvaluation \/ IsCheck

\* a lookup the evaluation for the call in last has to make names no node:
\* that of the target, or, on a target with ACL support, that of the
\* caller's principal or of a group its memberships lead to
LookupFails ==
    \/ last.uri \notin Nodes
    \/ /\ last.uri \in aclCapable
       /\ PrincipalSet(last.user) \ Nodes # {}

\* C34: when the target node, the caller's principal or a group in the
\* caller's membership closure cannot be looked up, checkPrivileges and
\* getCurrentUserPrivilegeSet hand their continuation that lookup error, not
\* a grant, a privilege set or a NeedPrivileges denial.
C34_LookupFailuresPropagate ==
    (IsEvaluationOrCheck /\ LookupFails)
    => /\ last.cb = 1
       /\ last.err = Err("NotFound")
       /\ ~last.thrown

\* C35: when the node at the request URI cannot be looked up, beforeMethod
\* hands the request on without an error and without a verdict of a
\* privilege check, whatever the method.
C35_MissingNodePasses ==
    (last.op = "beforeMethod" /\ last.uri \notin Nodes)
    => /\ Granted
       /\ last.value = "none"

\* a method of the privilege mapping was sent to a URI that names no node,
\* and went on
C35_Witness ==
    /\ last.op = "beforeMethod"
    /\ last.uri \notin Nodes
    /\ RequiredFor(last.method) # ""
    /\ Granted

-----------------------------------------------------------------------------
(* C36 .. C40 *)

\* the privileges of a tree, each paired with the nearest privilege that is
\* not abstract on the way from the root down to it (itself when it is not
\* abstract), "null" where there is none; inherited is that of the parent
RECURSIVE MarkersIn(_, _)
MarkersIn(priv, inherited) ==
    Then(IF priv.abstract THEN inherited ELSE priv.privilege, LAMBDA own :
        {<<priv, own>>} \cup
        UNION {MarkersIn(priv.aggregates[i], own) : i \in DOMAIN priv.aggregates})

\* C36: in the table the flattening of a node's privilege tree fills, the
\* concrete marker of every abstract privilege is its nearest ancestor that
\* is not abstract, and null when it has none, wherever in the tree the
\* privilege is declared.
C36_ConcreteMarker ==
    last.op = "getFlatPrivilegeSet"
    => \A m \in MarkersIn(getSupportedPrivilegeSet(last.uri), "null") :
           m[1].abstract => Catalog(last.uri)[m[1].privilege].concrete = m[2]

\* the failure of one requested entry: privilege unknown to the catalog of
\* the node, privilege abstract, principal no principal node; "none" if none
EntryFailure(node, ace) ==
    IF ace.privilege \notin DOMAIN Catalog(node) THEN "NotSupportedPrivilege"
    ELSE IF Catalog(node)[ace.privilege].abstract THEN "NoAbstract"
    ELSE IF ace.principal \notin PrincipalNodes THEN "NotRecognizedPrincipal"
    ELSE "none"

\* the first failure in the order of the checks, for the request newAcl on
\* the existing node: ACL support, protected entries of the prior ACL, then
\* the requested entries in list order
FirstFailure(node, newAcl) ==
    IF node \notin aclCapable THEN "MethodNotAllowed"
    ELSE IF DropsProtected(getACL(node).value, newAcl) THEN "AceConflict"
    ELSE IF \A k \in DOMAIN newAcl : EntryFailure(node, newAcl[k]) = "none"
    THEN "none"
    ELSE EntryFailure(node,
             newAcl[CHOOSE k \in DOMAIN newAcl :
                        /\ EntryFailure(node, newAcl[k]) # "none"
                        /\ \A h \in 1..(k - 1) :
                               EntryFailure(node, newAcl[h]) = "none"])

\* C37: an ACL request on an existing node fails with the first failure in
\* the order of the checks: MethodNotAllowed, then AceConflict, then, entry
\* by entry in list order, NotSupportedPrivilege, NoAbstract,
\* NotRecognizedPrincipal; a request that drops a protected entry and also
\* names an illegal privilege or principal fails with AceConflict.
C37_CheckOrder ==
    [][(last.op = "none" /\ last'.op = "ACL" /\ last'.uri \in Nodes)
       => last'.err.kind = FirstFailure(last'.uri, normalizeAcl(last'.body))]_vars

\* the entry applies to the caller: it names one of the caller's principals,
\* the owner when that is one of them, or a token that counts for every caller
Applies(ace, node, userName) ==
    CASE ace.principal \in {"{DAV:}all", "{DAV:}authenticated"} -> TRUE
      [] ace.principal = "{DAV:}unauthenticated" -> FALSE
      [] ace.principal = "{DAV:}owner" ->
             getOwner(node) # "" /\ getOwner(node) \in PrincipalSet(userName)
      [] OTHER -> ace.principal \in PrincipalSet(userName)

\* the privileges some entry of the ACL of the call justifies for the caller:
\* the privilege of an entry that applies and what the tree of the node puts
\* below it
Justified ==
    UNION { {AclOfCall[i].privilege} \cup
            Below(AclOfCall[i].privilege, getSupportedPrivilegeSet(last.uri)) :
            i \in {j \in DOMAIN AclOfCall : Applies(AclOfCall[j], last.uri, last.user)} }

ForEveryCaller ==
    SelectSeq(AclOfCall,
              LAMBDA ace : ace.principal \in {"{DAV:}all", "{DAV:}authenticated"})

\* the call in last was made with nobody logged in, on a resource with ACL
\* support
IsAnonymousEvaluation ==
    /\ IsEvaluation
    /\ last.user = ""
    /\ last.uri \in aclCapable

AclRequestUnderAdmins ==
    /\ last.op = "none"
    /\ last'.op = "ACL"
    /\ last'.uri \in aclCapable
    /\ getSupportedPrivilegeSet(last'.uri) = getDefaultSupportedPrivilegeSet
    /\ adminPrincipals # <<>>

\* the list repeats the administrator entries and holds nothing else
OnlyAdminEntries(newAcl) ==
    /\ newAcl # <<>>
    /\ Range(newAcl) = {AdminACE(adminPrincipals[i]) : i \in DOMAIN adminPrincipals}

\* C39: with an administrator principal configured and the default privilege
\* tree, an ACL request on a resource with ACL support never succeeds and
\* never changes the stored ACL: a request that leaves out a protected entry
\* of the prior ACL, the administrator entry included, fails with
\* AceConflict, and a request that repeats the administrator entries fails
\* with NoAbstract.
C39_AdminsBlockAcl ==
    [][AclRequestUnderAdmins
       => /\ storedACL' = storedACL
          /\ last'.err.kind # "none"
          /\ DropsProtected(getACL(last'.uri).value, normalizeAcl(last'.body))
                 => last'.err.kind = "AceConflict"
          /\ OnlyAdminEntries(normalizeAcl(last'.body))
                 => last'.err.kind = "NoAbstract"]_vars

====
